---- MODULE Spec2Model ----
(***************************************************************************)
(* Model of the notebook document engine of erys: the cell objects with    *)
(* their prev/next links (cell.py, markdown_cell.py, code_cell.py), the    *)
(* Notebook container with its mounted children, last_focused, last_copied *)
(* and _merge_list (notebook.py), and the structural commands on them.     *)
(*                                                                         *)
(* A cell object is a slot 1..MaxObj; cell[o] is the record of its         *)
(* attributes.  A removed widget is no longer in `children` but keeps its  *)
(* attributes for as long as something still refers to it (last_focused,   *)
(* _merge_list, a prev or next of a live object), as a Python object does. *)
(* Every handler is an operator from the notebook's state (a record st) to *)
(* the state it leaves; the actions apply the handlers and then drop the   *)
(* objects nothing refers to and number the rest in document order, which  *)
(* no handler can observe.                                                 *)
(*                                                                         *)
(* The files under src/src are in the middle of a refactoring:             *)
(* CodeCell.__init__ passes a language argument that Cell.__init__ of      *)
(* cell.py does not take; the constructors are modelled as succeeding.     *)
(* MarkdownCell is not a Cell: it has no join bindings, and its text area  *)
(* is the attribute text_area, where a CodeCell has input_text.  A handler *)
(* that reads input_text of a markdown cell (Cell.merge_cells_with_self,   *)
(* Notebook.switch_cell_type) or code_area of a code cell                  *)
(* (MarkdownCell.merge_cells_with_self) raises AttributeError there.       *)
(* A focus event of a widget inside a cell that on_descendant_focus lists  *)
(* records that cell, as its docstring says, whatever the nesting depth.   *)
(***************************************************************************)
EXTENDS Integers, Sequences, FiniteSets, TLC

\* ------------------------------------------------------------------ bounds
MaxObj == 4     \* cell objects alive (mounted or still referenced) at once
MaxCells == 3   \* cells mounted in the container at once
MaxLen == 3     \* characters in one text area
MaxAdded == 1   \* cells added with the add commands in one session
MaxCallers == 2 \* threads that call NotebookKernel.run_code
MaxRestarts == 1 \* restarts of the kernel in one session
MaxInfo == 1    \* kernel_info requests (one per save) in one session
MaxPasteInto == 1 \* cells of a Document that is pasted into in the snapshot session

\* ------------------------------------------------------------- vocabulary
NULL == 0       \* Python's None for a cell reference, an id, a count

NoCopy == [cell_type |-> "none", id |-> NULL]   \* last_copied = None

Obj == 1..MaxObj

VARIABLES
    cell,           \* object -> attributes (kind, id, text, links, ...)
    children,       \* Notebook.cell_container.children, in mounted order
    last_focused,   \* Notebook.last_focused
    last_copied,    \* Notebook.last_copied (a serialized cell or NoCopy)
    merge_list,     \* Notebook._merge_list
    op,             \* history: the command executed last, and whether it raised
    added,          \* history: how many cells the add commands have added
    file,           \* the notebook file at Notebook.path
    kernel,         \* Notebook.notebook_kernel, the kernel and the callers of run_code
    tabs            \* a second Notebook of the application, and Notebook._merge_list

vars == <<cell, children, last_focused, last_copied, merge_list, op, added, file, kernel,
          tabs>>

\* The variables of the notebook widget and its file.
nbvars == <<cell, children, last_focused, last_copied, merge_list, op, added, file, tabs>>

\* The notebook's state as the handlers see it.
St ==
    [cell |-> cell, children |-> children, last_focused |-> last_focused,
     last_copied |-> last_copied, merge_list |-> merge_list, raised |-> FALSE]

\* ------------------------------------------------------- sequence helpers
InSeq(s, x) == \E i \in 1..Len(s) : s[i] = x

IndexOf(s, x) == CHOOSE i \in 1..Len(s) : s[i] = x

InsertAt(s, i, x) == SubSeq(s, 1, i - 1) \o <<x>> \o SubSeq(s, i, Len(s))

Without(s, x) == SelectSeq(s, LAMBDA y : y # x)

Range(s) == {s[i] : i \in 1..Len(s)}

\* ---------------------------------------------------- textual's mounting
\* Widget.mount(widget, before=/after=anchor): with no anchor the widget is
\* appended; an anchor that is not a child of the container raises MountError.
MountOk(ch, anchor) == anchor = NULL \/ InSeq(ch, anchor)

Mount(ch, w, anchor, position) ==
    IF anchor = NULL THEN Append(ch, w)
    ELSE IF position = "before" THEN InsertAt(ch, IndexOf(ch, anchor), w)
    ELSE InsertAt(ch, IndexOf(ch, anchor) + 1, w)

\* Widget.remove(): the widget leaves its parent's children (nothing happens
\* for a widget that is not mounted).
Unmount(ch, w) == Without(ch, w)

\* An exception leaves the handler: the state as it is then, marked raised.
Raise(st) == [st EXCEPT !.raised = TRUE]

\* -------------------------------------------------------- object lifetime
\* A slot holding no object.
Free ==
    [kind |-> "free", text |-> <<>>, outputs |-> <<>>, exec_count |-> NULL,
     metadata |-> {}, id |-> NULL, prev |-> NULL, next |-> NULL,
     merge_select |-> FALSE, collapsed |-> FALSE, output_collapsed |-> FALSE,
     running |-> FALSE]

FreeSlots(cs) == {o \in Obj : cs[o] = Free}

\* The slot a newly constructed object takes.
NewObj(cs) == CHOOSE o \in FreeSlots(cs) : \A x \in FreeSlots(cs) : o <= x

\* ---------------------------------------------------------- constructors
\* The ids some cell or the clipboard still carries.
UsedIds(st) == {st.cell[o].id : o \in Obj} \cup {st.last_copied.id}

\* get_cell_id: an id no cell and no snapshot carries.
get_cell_id(st) ==
    CHOOSE i \in 1..(MaxObj + 2) :
        /\ i \notin UsedIds(st)
        /\ \A j \in 1..(i - 1) : j \in UsedIds(st)

\* metadata.get("collapsed", False), the metadata being a set of key-value
\* pairs.
metadata_collapsed(metadata) == <<"collapsed", TRUE>> \in metadata

\* Cell.__init__ / CodeCell.__init__: prev and next start as the class
\* attributes None, merge_select as False; the collapse button starts with
\* the metadata's "collapsed", the output collapse button expanded.
CodeCell(source, outputs, exec_count, metadata, cell_id) ==
    [kind |-> "code", text |-> source, outputs |-> outputs,
     exec_count |-> exec_count, metadata |-> metadata, id |-> cell_id,
     prev |-> NULL, next |-> NULL, merge_select |-> FALSE,
     collapsed |-> metadata_collapsed(metadata), output_collapsed |-> FALSE,
     running |-> FALSE]

\* MarkdownCell.__init__: no outputs, no execution count and no output
\* collapse button.
MarkdownCell(source, metadata, cell_id) ==
    [kind |-> "markdown", text |-> source, outputs |-> <<>>,
     exec_count |-> NULL, metadata |-> metadata, id |-> cell_id,
     prev |-> NULL, next |-> NULL, merge_select |-> FALSE,
     collapsed |-> metadata_collapsed(metadata), output_collapsed |-> FALSE,
     running |-> FALSE]

\* cell_type(self, source) as add_cell, create_cell and switch_cell_type call
\* it: a new cell of the kind with a fresh id (cell_id or get_cell_id()).
NewCell(kind, source, st) ==
    IF kind = "code" THEN CodeCell(source, <<>>, NULL, {}, get_cell_id(st))
    ELSE MarkdownCell(source, {}, get_cell_id(st))

\* ------------------------------------------------------------ link surgery
\* Cell.disconnect / MarkdownCell.disconnect: the neighbours are pointed at
\* each other; the cell's own prev and next are left as they are.
disconnect(cs, c) ==
    LET p   == cs[c].prev
        cs1 == IF p # NULL THEN [cs EXCEPT ![p].next = cs[c].next] ELSE cs
        n   == cs1[c].next
    IN  IF n # NULL THEN [cs1 EXCEPT ![n].prev = cs1[c].prev] ELSE cs1

\* The first value disconnect returns: the cell to focus next.  It is set to
\* prev first and then overwritten by next when there is one.
disconnect_focus(cs, c) ==
    LET p   == cs[c].prev
        cs1 == IF p # NULL THEN [cs EXCEPT ![p].next = cs[c].next] ELSE cs
        n   == cs1[c].next
    IN  IF n # NULL THEN n ELSE p

\* Notebook.connect_widget, the links: widget w goes next to last_focused (lf).
connect_widget(cs, lf, w, position) ==
    IF lf = NULL THEN cs
    ELSE IF position = "after" THEN
        LET n   == cs[lf].next
            cs1 == [cs EXCEPT ![lf].next = w]
            cs2 == [cs1 EXCEPT ![w].next = n]
            cs3 == [cs2 EXCEPT ![w].prev = lf]
        IN  IF n # NULL THEN [cs3 EXCEPT ![n].prev = w] ELSE cs3
    ELSE IF position = "before" THEN
        LET p   == cs[lf].prev
            cs1 == [cs EXCEPT ![lf].prev = w]
            cs2 == [cs1 EXCEPT ![w].next = lf]
            cs3 == [cs2 EXCEPT ![w].prev = p]
        IN  IF p # NULL THEN [cs3 EXCEPT ![p].next = w] ELSE cs3
    ELSE cs

\* Notebook.connect_widget, last_focused: the widget becomes the focused cell
\* only when no cell had been focused.
connect_focus(lf, w) == IF lf = NULL THEN w ELSE lf

\* ------------------------------------------------------------ serializing
\* A JSON source value: a string, or a list of strings.
Str(text) == <<"str", text>>

Lines(list) == <<"list", list>>

RECURSIVE Flatten(_)
\* "".join(list).
Flatten(list) == IF list = <<>> THEN <<>> ELSE Head(list) \o Flatten(Tail(list))

\* The source from_nb hands to the constructor: a list is joined, a string
\* is taken as it is.
join_source(source) == IF source[1] = "list" THEN Flatten(source[2]) ELSE source[2]

\* A to_nb that serializes a code cell without its outputs.
to_nb_no_outputs(c) ==
    IF c.kind = "code"
    THEN [cell_type |-> "code", execution_count |-> c.exec_count, id |-> c.id,
          metadata |-> c.metadata, outputs |-> <<>>, source |-> Str(c.text)]
    ELSE [cell_type |-> "markdown", metadata |-> c.metadata,
          source |-> Str(c.text), id |-> c.id]

\* CodeCell.to_nb / MarkdownCell.to_nb: a markdown record has no outputs and
\* no execution_count key.
to_nb(c) ==
    IF c.kind = "code"
    THEN [cell_type |-> "code", execution_count |-> c.exec_count, id |-> c.id,
          metadata |-> c.metadata, outputs |-> c.outputs, source |-> Str(c.text)]
    ELSE [cell_type |-> "markdown", metadata |-> c.metadata,
          source |-> Str(c.text), id |-> c.id]

\* The keys from_nb asserts to be in the record, for each class.
RequiredKeys(kind) ==
    IF kind = "code"
    THEN {"cell_type", "execution_count", "metadata", "source", "outputs"}
    ELSE {"cell_type", "metadata", "source"}

\* The assertions of CodeCell.from_nb (kind "code") / MarkdownCell.from_nb
\* (kind "markdown") hold of the record.
from_nb_ok(nb, kind) ==
    /\ RequiredKeys(kind) \subseteq DOMAIN nb
    /\ nb.cell_type = kind

\* CodeCell.from_nb / MarkdownCell.from_nb on a record that passes the
\* assertions: the id is nb.get("id"), and the constructor makes a new one
\* when there is none.
from_nb(nb, kind, st) ==
    LET cell_id == IF "id" \in DOMAIN nb /\ nb.id # NULL THEN nb.id
                   ELSE get_cell_id(st)
    IN  IF kind = "code"
        THEN CodeCell(join_source(nb.source), nb.outputs, nb.execution_count,
                      nb.metadata, cell_id)
        ELSE MarkdownCell(join_source(nb.source), nb.metadata, cell_id)

\* Cell.set_new_id.
set_new_id(c, st) == [c EXCEPT !.id = get_cell_id(st)]

\* CodeCell.clone / MarkdownCell.clone with connect=True: a new object with
\* the text in the text area, the same outputs, count, metadata and id, and
\* the same prev and next.
clone(c) ==
    [(IF c.kind = "code"
      THEN CodeCell(c.text, c.outputs, c.exec_count, c.metadata, c.id)
      ELSE MarkdownCell(c.text, c.metadata, c.id))
     EXCEPT !.next = c.next, !.prev = c.prev]

\* A create_cell that loses the source it is given.
create_cell_empty(c, source, st) == NewCell(c.kind, <<>>, st)

\* CodeCell.create_cell, and the MarkdownCell(...) call of
\* CopyTextAreaMarkdown.action_split_cell: a new cell of the kind of the cell
\* being split.
create_cell(c, source, st) == NewCell(c.kind, source, st)

\* ---------------------------------------------------------------- handlers
\* Notebook.on_descendant_focus for a cell c or a widget inside it.
on_descendant_focus(st, c) == [st EXCEPT !.last_focused = c]

\* Notebook.add_cell as called by action_add_cell_after / _before and by the
\* add-code-cell / add-markdown-cell buttons, which then open the new cell:
\* open focuses the cell's text area, and on_descendant_focus records the cell
\* of a CodeArea but not that of a markdown cell's CopyTextAreaMarkdown.
add_cell(st, kind, position, open) ==
    IF ~MountOk(st.children, st.last_focused) THEN Raise(st)
    ELSE LET w  == NewObj(st.cell)
             cs == [st.cell EXCEPT ![w] = NewCell(kind, <<>>, st)]
         IN  [st EXCEPT
                !.cell = connect_widget(cs, st.last_focused, w, position),
                !.children = Mount(st.children, w, st.last_focused, position),
                !.last_focused = IF open /\ kind = "code" THEN w
                                 ELSE connect_focus(st.last_focused, w)]

\* A delete that also empties the clipboard.
action_delete_cell_forget(st) ==
    IF st.last_focused = NULL THEN st
    ELSE [st EXCEPT
            !.cell = disconnect(st.cell, st.last_focused),
            !.children = Unmount(st.children, st.last_focused),
            !.last_focused = disconnect_focus(st.cell, st.last_focused),
            !.last_copied = NoCopy]

\* Notebook.action_delete_cell.
action_delete_cell(st) ==
    IF st.last_focused = NULL THEN st
    ELSE [st EXCEPT
            !.cell = disconnect(st.cell, st.last_focused),
            !.children = Unmount(st.children, st.last_focused),
            !.last_focused = disconnect_focus(st.cell, st.last_focused)]

\* A copy that also drops the focus.
action_copy_cell_unfocus(st) ==
    IF st.last_focused = NULL THEN st
    ELSE [st EXCEPT !.last_copied = to_nb(st.cell[st.last_focused]),
                    !.last_focused = NULL]

\* Notebook.action_copy_cell.
action_copy_cell(st) ==
    IF st.last_focused = NULL THEN st
    ELSE [st EXCEPT !.last_copied = to_nb(st.cell[st.last_focused])]

\* A cut that deletes first and then stores the snapshot of the cell that
\* is focused afterwards.
action_cut_cell_late(st) ==
    IF st.last_focused = NULL THEN st
    ELSE action_copy_cell(action_delete_cell(st))

\* Notebook.action_cut_cell: the serialized cell is stored, then
\* action_delete_cell runs.
action_cut_cell(st) ==
    IF st.last_focused = NULL THEN st
    ELSE action_delete_cell([st EXCEPT !.last_copied = to_nb(st.cell[st.last_focused])])

\* Notebook.action_paste_cell: the class is chosen by the snapshot's
\* cell_type, the widget gets a new id, is mounted after last_focused and
\* connected.
action_paste_cell(st) ==
    IF st.last_copied = NoCopy THEN st
    ELSE IF ~from_nb_ok(st.last_copied, st.last_copied.cell_type) THEN Raise(st)
    ELSE IF ~MountOk(st.children, st.last_focused) THEN Raise(st)
    ELSE LET w  == NewObj(st.cell)
             widget == from_nb(st.last_copied, st.last_copied.cell_type, st)
             cs == [st.cell EXCEPT ![w] = set_new_id(widget, st)]
         IN  [st EXCEPT
                !.cell = connect_widget(cs, st.last_focused, w, "after"),
                !.children = Mount(st.children, w, st.last_focused, "after"),
                !.last_focused = connect_focus(st.last_focused, w)]

\* The pointer surgery of action_move_up on the clone w (already in cs).
move_up_links(cs, w) ==
    LET p   == cs[w].prev
        cs1 == [cs EXCEPT ![p].next = cs[w].next]
        cs2 == IF cs1[w].next # NULL THEN [cs1 EXCEPT ![cs1[w].next].prev = p] ELSE cs1
        cs3 == IF cs2[p].prev # NULL THEN [cs2 EXCEPT ![cs2[p].prev].next = w] ELSE cs2
        cs4 == [cs3 EXCEPT ![w].prev = cs3[p].prev]
        cs5 == [cs4 EXCEPT ![w].next = p]
    IN  [cs5 EXCEPT ![p].prev = w]

\* Notebook.action_move_up: the original is removed before the clone is
\* mounted before clone.next; a failed mount leaves the handler there.
action_move_up(st) ==
    IF st.last_focused = NULL THEN st
    ELSE IF st.cell[st.last_focused].prev = NULL THEN st
    ELSE LET w   == NewObj(st.cell)
             cs  == move_up_links([st.cell EXCEPT ![w] = clone(st.cell[st.last_focused])], w)
             ch1 == Unmount(st.children, st.last_focused)
         IN  IF MountOk(ch1, cs[w].next)
             THEN [st EXCEPT !.cell = cs,
                             !.children = Mount(ch1, w, cs[w].next, "before"),
                             !.last_focused = w]
             ELSE Raise([st EXCEPT !.cell = cs, !.children = ch1])

\* The pointer surgery of action_move_down on the clone w (already in cs).
move_down_links(cs, w) ==
    LET n   == cs[w].next
        cs1 == [cs EXCEPT ![n].prev = cs[w].prev]
        cs2 == IF cs1[w].prev # NULL THEN [cs1 EXCEPT ![cs1[w].prev].next = n] ELSE cs1
        cs3 == IF cs2[n].next # NULL THEN [cs2 EXCEPT ![cs2[n].next].prev = w] ELSE cs2
        cs4 == [cs3 EXCEPT ![w].prev = n]
        cs5 == [cs4 EXCEPT ![w].next = cs4[n].next]
    IN  [cs5 EXCEPT ![n].next = w]

\* Notebook.action_move_down: the clone is mounted after clone.prev, then the
\* original is removed.
action_move_down(st) ==
    IF st.last_focused = NULL THEN st
    ELSE IF st.cell[st.last_focused].next = NULL THEN st
    ELSE LET w  == NewObj(st.cell)
             cs == move_down_links([st.cell EXCEPT ![w] = clone(st.cell[st.last_focused])], w)
         IN  IF MountOk(st.children, cs[w].prev)
             THEN [st EXCEPT !.cell = cs,
                             !.children = Unmount(Mount(st.children, w, cs[w].prev, "after"),
                                                  st.last_focused),
                             !.last_focused = w]
             ELSE Raise([st EXCEPT !.cell = cs])

\* Cell.on_mouse_down / MarkdownCell.on_mouse_down with ctrl held: the cell
\* enters or leaves the merge list and its merge_select flag is flipped.
\* list.remove raises ValueError for a cell that is not in the list.
on_mouse_down(st, c) ==
    IF ~st.cell[c].merge_select
    THEN [st EXCEPT !.merge_list = Append(st.merge_list, c),
                    !.cell = [st.cell EXCEPT ![c].merge_select = TRUE]]
    ELSE IF InSeq(st.merge_list, c)
    THEN [st EXCEPT
            !.merge_list = SubSeq(st.merge_list, 1, IndexOf(st.merge_list, c) - 1)
                           \o SubSeq(st.merge_list, IndexOf(st.merge_list, c) + 1,
                                     Len(st.merge_list)),
            !.cell = [st.cell EXCEPT ![c].merge_select = FALSE]]
    ELSE Raise(st)

RECURSIVE ClearSelect(_, _)
\* The loop of Notebook.on_key for "escape": merge_select = False for every
\* cell of the list.
ClearSelect(cs, cells) ==
    IF cells = <<>> THEN cs
    ELSE ClearSelect([cs EXCEPT ![Head(cells)].merge_select = FALSE], Tail(cells))

\* An Escape that forgets the list without clearing the flags of its cells.
on_key_escape_keep_flags(st) == [st EXCEPT !.merge_list = <<>>]

\* Notebook.on_key, case "escape".
on_key_escape(st) ==
    [st EXCEPT !.cell = ClearSelect(st.cell, st.merge_list), !.merge_list = <<>>]

RECURSIVE MergeText(_, _, _)
\* The source merge_cells_with_self builds: the text so far, then a newline
\* and the text of each cell of the list, in order.
MergeText(cs, source, cells) ==
    IF cells = <<>> THEN source
    ELSE MergeText(cs, source \o <<"\n">> \o cs[Head(cells)].text, Tail(cells))

RECURSIVE DisconnectAll(_, _)
\* The cell.disconnect() calls of the loop, in order.
DisconnectAll(cs, cells) ==
    IF cells = <<>> THEN cs
    ELSE DisconnectAll(disconnect(cs, Head(cells)), Tail(cells))

RECURSIVE UnmountAll(_, _)
\* The cell.remove() calls of the loop.
UnmountAll(ch, cells) ==
    IF cells = <<>> THEN ch
    ELSE UnmountAll(Unmount(ch, Head(cells)), Tail(cells))

RECURSIVE SameKindPrefix(_, _, _)
\* The cells of the list before the first one whose kind is not k.
SameKindPrefix(cs, k, cells) ==
    IF cells = <<>> \/ cs[Head(cells)].kind # k THEN <<>>
    ELSE <<Head(cells)>> \o SameKindPrefix(cs, k, Tail(cells))

\* self.focus(): a mounted cell takes the focus (and on_descendant_focus
\* records it), a removed widget cannot.
focus(ch, lf, t) == IF InSeq(ch, t) THEN t ELSE lf

\* Cell.merge_cells_with_self / MarkdownCell.merge_cells_with_self called on
\* cell t with the list cells.
\* The loop reads input_text of each cell when t is a code cell, and code_area
\* of a code cell or text_area of a markdown cell when t is a markdown cell:
\* the first cell of the other kind raises AttributeError, after the cells
\* before it have been disconnected and removed and before the text is loaded.
merge_cells_with_self(st, t, cells) ==
    LET done == SameKindPrefix(st.cell, st.cell[t].kind, cells)
        part == [st EXCEPT !.cell = DisconnectAll(st.cell, done),
                           !.children = UnmountAll(st.children, done)]
    IN  IF done # cells THEN Raise(part)
        ELSE [part EXCEPT
                !.cell = [part.cell EXCEPT
                            ![t].text = MergeText(st.cell, st.cell[t].text, cells)],
                !.last_focused = focus(part.children, st.last_focused, t)]

\* Notebook.action_merge_cells.
action_merge_cells(st) ==
    IF Len(st.merge_list) < 2 THEN st
    ELSE LET target == st.merge_list[1]
             m      == merge_cells_with_self(st, target, Tail(st.merge_list))
         IN  IF m.raised THEN m
             ELSE [m EXCEPT !.cell = [m.cell EXCEPT ![target].merge_select = FALSE],
                            !.merge_list = <<>>]

\* Cell.action_join_above on cell c.
action_join_above(st, c) ==
    IF st.cell[c].prev = NULL THEN st
    ELSE merge_cells_with_self(st, st.cell[c].prev, <<c>>)

\* Cell.action_join_below on cell c.
action_join_below(st, c) ==
    IF st.cell[c].next = NULL THEN st
    ELSE merge_cells_with_self(st, c, <<st.cell[c].next>>)

\* SplitTextArea.action_split_cell / CopyTextAreaMarkdown.action_split_cell on
\* the cell c whose text area has the cursor at offset k: the text before the
\* cursor stays, the rest goes to a new cell that is mounted after c and
\* connected by connect_widget.
action_split_cell(st, c, k) ==
    LET w              == NewObj(st.cell)
        string_to_keep == SubSeq(st.cell[c].text, 1, k)
        string_for_new == SubSeq(st.cell[c].text, Len(string_to_keep) + 1,
                                 Len(st.cell[c].text))
        cs == [st.cell EXCEPT ![c].text = string_to_keep,
                              ![w] = create_cell(st.cell[c], string_for_new, st)]
    IN  [st EXCEPT !.cell = connect_widget(cs, st.last_focused, w, "after"),
                   !.children = Mount(st.children, w, c, "after"),
                   !.last_focused = connect_focus(st.last_focused, w)]

\* Notebook.switch_cell_type.  The source is read as last_focused.input_text,
\* which a markdown cell does not have: AttributeError before anything is done.
switch_cell_type(st) ==
    IF st.last_focused = NULL THEN st
    ELSE IF st.cell[st.last_focused].kind # "code" THEN Raise(st)
    ELSE IF ~MountOk(st.children, st.last_focused) THEN Raise(st)
    ELSE LET w   == NewObj(st.cell)
             src == st.cell[st.last_focused].text
             new_cell_type == IF st.cell[st.last_focused].kind = "code"
                              THEN "markdown" ELSE "code"
             cs  == [st.cell EXCEPT ![w] = NewCell(new_cell_type, src, st)]
         IN  [st EXCEPT
                !.cell = disconnect(connect_widget(cs, st.last_focused, w, "after"),
                                    st.last_focused),
                !.children = Unmount(Mount(st.children, w, st.last_focused, "after"),
                                     st.last_focused),
                !.last_focused = w]

\* ---------------------------------------------------------------- collapse
\* CollapseLabel.on_click / MarkdownCollapseLabel.on_click on the collapse
\* button of cell c.
CollapseLabel_on_click(st, c) ==
    [st EXCEPT !.cell = [st.cell EXCEPT ![c].collapsed = ~st.cell[c].collapsed]]

\* OutputCollapseLabel.on_click on the output collapse button of code cell c.
OutputCollapseLabel_on_click(st, c) ==
    [st EXCEPT !.cell = [st.cell EXCEPT
                            ![c].output_collapsed = ~st.cell[c].output_collapsed]]

\* A collapse command that toggles each of the two flags on its own.
action_collapse_toggle(st, c) ==
    [st EXCEPT !.cell = [st.cell EXCEPT
                            ![c].collapsed = ~st.cell[c].collapsed,
                            ![c].output_collapsed =
                                IF st.cell[c].kind = "code"
                                THEN ~st.cell[c].output_collapsed
                                ELSE st.cell[c].output_collapsed]]

\* A collapse command that forgets the output button when it collapses.
action_collapse_code_only(st, c) ==
    IF st.cell[c].kind = "code"
    THEN IF ~st.cell[c].collapsed \/ ~st.cell[c].output_collapsed
         THEN [st EXCEPT !.cell = [st.cell EXCEPT ![c].collapsed = TRUE]]
         ELSE [st EXCEPT !.cell = [st.cell EXCEPT
                                      ![c].collapsed = FALSE,
                                      ![c].output_collapsed = FALSE]]
    ELSE [st EXCEPT !.cell = [st.cell EXCEPT ![c].collapsed = ~st.cell[c].collapsed]]

\* CodeCell.action_collapse / MarkdownCell.action_collapse on cell c: a code
\* cell with a flag that is false gets both set; with both true it gets both
\* negated; a markdown cell's only flag is negated.
action_collapse(st, c) ==
    IF st.cell[c].kind = "code"
    THEN IF ~st.cell[c].collapsed \/ ~st.cell[c].output_collapsed
         THEN [st EXCEPT !.cell = [st.cell EXCEPT
                                      ![c].collapsed = TRUE,
                                      ![c].output_collapsed = TRUE]]
         ELSE [st EXCEPT !.cell = [st.cell EXCEPT
                                      ![c].collapsed = ~st.cell[c].collapsed,
                                      ![c].output_collapsed =
                                          ~st.cell[c].output_collapsed]]
    ELSE [st EXCEPT !.cell = [st.cell EXCEPT ![c].collapsed = ~st.cell[c].collapsed]]

\* ------------------------------------------------------------------ running
\* The attributes NotebookKernel.__init__ gives a kernel proxy; the class
\* has no class attributes and no __getattr__.
NotebookKernelAttributes == {"kernel_manager", "kernel_client", "execution_lock"}

\* CodeCell.run_cell on code cell c up to its await.  The first statement
\* reads notebook_kernel.initialized, which raises AttributeError when the
\* proxy has no such attribute; otherwise a cell without source returns and
\* a cell with source gets run_label.running = True and its code is handed to
\* kernel.run_code in a thread.
run_cell(st, c) ==
    IF "initialized" \notin NotebookKernelAttributes THEN Raise(st)
    ELSE IF st.cell[c].text = <<>> THEN st
    ELSE [st EXCEPT !.cell = [st.cell EXCEPT ![c].running = TRUE]]

\* CodeCell.run_cell on code cell c after the await: the results of
\* kernel.run_code are written to the cell.
run_cell_complete(st, c, outputs, execution_count) ==
    [st EXCEPT !.cell = [st.cell EXCEPT ![c].running = FALSE,
                                        ![c].exec_count = execution_count,
                                        ![c].outputs = outputs]]

\* CodeCell.interrupt_cell on code cell c: the same first statement, then
\* kernel.interrupt_kernel(), which changes nothing of the notebook.
interrupt_cell(st, c) ==
    IF "initialized" \notin NotebookKernelAttributes THEN Raise(st)
    ELSE st

\* self.run_worker(code_cell.run_cell): the worker runs run_cell on code cell
\* c up to its await of kernel.run_code, in b = [st, ran], ran being the
\* cells for which an execution has been dispatched.
run_worker(b, c) ==
    LET d == run_cell(b.st, c)
    IN  IF d.raised \/ d.cell[c].text = <<>> THEN [b EXCEPT !.st = d]
        ELSE [st |-> d, ran |-> Append(b.ran, c)]

\* RunLabel.on_click on the run button of code cell c: a run when the label
\* is not running, an interrupt when it is.
RunLabel_on_click(b, c) ==
    IF ~b.st.cell[c].running THEN run_worker(b, c)
    ELSE [b EXCEPT !.st = interrupt_cell(b.st, c)]

\* CodeArea.on_key for ctrl+r in the code area of cell c: a run when the
\* label is not running, nothing when it is.
CodeArea_on_key_ctrl_r(b, c) ==
    IF ~b.st.cell[c].running THEN run_worker(b, c) ELSE b

\* CodeCell.action_run_cell, the cell-level run binding: run_worker(run_cell)
\* whatever the label shows.
action_run_cell(b, c) == run_worker(b, c)

\* What an execution returns, as far as the notebook can tell: one stream
\* output and the execution count 1.
KernelOutputs == <<"stream">>

\* await cell.run_cell() of the batch commands: the cell's run from its
\* first statement to its last, in b = [st, ran], ran being the cells whose
\* code has been executed so far.
await_run_cell(b, c) ==
    LET d == run_cell(b.st, c)
    IN  IF d.raised \/ ~d.cell[c].running THEN [b EXCEPT !.st = d]
        ELSE [st |-> run_cell_complete(d, c, KernelOutputs, 1), ran |-> Append(b.ran, c)]

RECURSIVE run_each(_, _, _)
\* The loops of the batch commands over the cells from index i of the
\* sequence cells: every CodeCell is run and awaited, in order; an exception
\* ends the loop.
run_each(b, cells, i) ==
    IF i > Len(cells) \/ b.st.raised THEN b
    ELSE IF b.st.cell[cells[i]].kind = "code"
    THEN run_each(await_run_cell(b, cells[i]), cells, i + 1)
    ELSE run_each(b, cells, i + 1)

\* self.last_focused.focus() at the end of a batch command: AttributeError
\* when last_focused is None; the focus of an unmounted widget is not taken.
focus_last_focused(b) ==
    IF b.st.raised THEN b
    ELSE IF b.st.last_focused = NULL THEN [b EXCEPT !.st = Raise(b.st)]
    ELSE b

\* Notebook.run_all_cells: the code cells among the container's children.
run_all_cells(st) ==
    focus_last_focused(run_each([st |-> st, ran |-> <<>>], st.children, 1))

RECURSIVE FollowNext(_, _, _)
\* The cells met from c along the next links (at most n of them).
FollowNext(cs, c, n) ==
    IF c = NULL \/ n = 0 THEN <<>> ELSE <<c>> \o FollowNext(cs, cs[c].next, n - 1)

\* Notebook.run_cells_after: from last_focused (inclusive) along the next
\* links.
run_cells_after(st) ==
    IF st.last_focused = NULL THEN [st |-> st, ran |-> <<>>]
    ELSE focus_last_focused(run_each([st |-> st, ran |-> <<>>],
                                     FollowNext(st.cell, st.last_focused, MaxObj), 1))

\* Notebook.run_cells_before: the container's children up to last_focused
\* (exclusive); all of them when last_focused is not among them.
run_cells_before(st) ==
    IF st.last_focused = NULL THEN [st |-> st, ran |-> <<>>]
    ELSE focus_last_focused(run_each([st |-> st, ran |-> <<>>],
            IF InSeq(st.children, st.last_focused)
            THEN SubSeq(st.children, 1, IndexOf(st.children, st.last_focused) - 1)
            ELSE st.children, 1))

\* ------------------------------------------------------- garbage collection
RECURSIVE Reach(_, _, _)
\* The objects reachable from S through prev and next in at most n steps.
Reach(cs, S, n) ==
    IF n = 0 THEN S
    ELSE Reach(cs, S \cup (({cs[o].prev : o \in S} \cup {cs[o].next : o \in S}) \ {NULL}),
               n - 1)

\* The objects Python keeps alive: the mounted cells, the cells of the merge
\* list, last_focused, and whatever those reach through prev and next.
Live(st) ==
    Reach(st.cell, (Range(st.children) \cup Range(st.merge_list) \cup {st.last_focused})
                   \ {NULL}, MaxObj)

\* The state with the objects nothing refers to any more freed.
Collect(st) ==
    [st EXCEPT !.cell = [o \in Obj |-> IF o \in Live(st) THEN st.cell[o] ELSE Free]]

RECURSIVE AddAll(_, _)
\* ord extended by the objects of xs it does not hold yet, in the order of xs.
AddAll(ord, xs) ==
    IF xs = <<>> THEN ord
    ELSE AddAll(IF Head(xs) = NULL \/ InSeq(ord, Head(xs)) THEN ord
                ELSE Append(ord, Head(xs)), Tail(xs))

RECURSIVE SortedSeq(_)
\* The elements of a set of numbers in increasing order.
SortedSeq(S) ==
    IF S = {} THEN <<>>
    ELSE LET m == CHOOSE x \in S : \A y \in S : x <= y
         IN  <<m>> \o SortedSeq(S \ {m})

RECURSIVE IdsOf(_, _)
\* The ids of the objects of ord, in that order.
IdsOf(cs, ord) ==
    IF ord = <<>> THEN <<>> ELSE <<cs[Head(ord)].id>> \o IdsOf(cs, Tail(ord))

\* The state with the dead objects dropped and the live ones numbered in the
\* order: mounted cells, merge list, last_focused, the rest.  The ids are
\* numbered in the same way, in the order the live cells and then the
\* clipboard carry them.  A slot number stands for an object's identity and
\* an id is only ever compared with another id, so no handler can tell the
\* renumbered state from the one it left.
Canon(st) ==
    LET ord == AddAll(AddAll(AddAll(AddAll(<<>>, st.children), st.merge_list),
                             <<st.last_focused>>), SortedSeq(Live(st)))
        pi(o) == IF o = NULL THEN NULL ELSE IndexOf(ord, o)
        ids == AddAll(AddAll(<<>>, IdsOf(st.cell, ord)), <<st.last_copied.id>>)
        rho(i) == IF i = NULL THEN NULL ELSE IndexOf(ids, i)
    IN  [st EXCEPT
            !.cell = [n \in Obj |->
                        IF n <= Len(ord)
                        THEN [st.cell[ord[n]] EXCEPT !.prev = pi(@), !.next = pi(@),
                                                     !.id = rho(@)]
                        ELSE Free],
            !.children = [i \in 1..Len(st.children) |-> pi(st.children[i])],
            !.merge_list = [i \in 1..Len(st.merge_list) |-> pi(st.merge_list[i])],
            !.last_focused = pi(st.last_focused),
            !.last_copied = [st.last_copied EXCEPT !.id = rho(@)]]

\* ------------------------------------------------------------------ loading
Nbformat == 4        \* Notebook._nbformat

NbformatMinor == 5   \* Notebook._nbformat_minor

\* The notebook files the editing sessions open: three documents written by
\* another editor (nbformat_minor 4), with string and list sources.
Files ==
    { [nbformat |-> 4, nbformat_minor |-> 4, metadata |-> {}, cells |-> <<>>],
      [nbformat |-> 4, nbformat_minor |-> 4, metadata |-> {}, cells |->
        << [cell_type |-> "code", execution_count |-> 1, id |-> 1, metadata |-> {},
            outputs |-> <<"stream">>, source |-> Str(<<"a">>)],
           [cell_type |-> "markdown", id |-> 2, metadata |-> {},
            source |-> Lines(<< <<"b">> >>)] >>],
      [nbformat |-> 4, nbformat_minor |-> 4, metadata |-> {}, cells |->
        << [cell_type |-> "markdown", id |-> 1, metadata |-> {<<"tags", "x">>},
            source |-> Lines(<< <<"a">>, <<"b">> >>)],
           [cell_type |-> "code", execution_count |-> NULL, id |-> 2, metadata |-> {},
            outputs |-> <<>>, source |-> Str(<<>>)],
           [cell_type |-> "code", execution_count |-> 2, id |-> 3, metadata |-> {},
            outputs |-> <<"error">>, source |-> Lines(<< <<"b">> >>)] >>] }

\* Notebook.__init__: no cell, nothing focused, copied or selected.
EmptyNotebook ==
    [cell |-> [o \in Obj |-> Free], children |-> <<>>, last_focused |-> NULL,
     last_copied |-> NoCopy, merge_list |-> <<>>, raised |-> FALSE]

\* The if / elif of the loop of load_notebook on one record, in the loop
\* state L (the cells, last_focused, and the locals prev and widget; NULL is
\* an unbound local): a "code" or "markdown" record goes through from_nb,
\* whose assertions may fail; any other cell_type leaves widget as it was.
load_widget(L, rec) ==
    IF "cell_type" \notin DOMAIN rec THEN Raise(L)
    ELSE IF rec.cell_type \in {"code", "markdown"}
    THEN IF from_nb_ok(rec, rec.cell_type)
         THEN LET w == NewObj(L.cell)
                  c == from_nb(rec, rec.cell_type,
                               [cell |-> L.cell, last_copied |-> NoCopy])
              IN  [L EXCEPT !.cell = [L.cell EXCEPT ![w] = c], !.widget = w]
         ELSE Raise(L)
    ELSE L

\* The rest of the loop body for the record at index idx (from 1): the
\* widget is linked after prev, or becomes last_focused when it is the first,
\* and its mount is scheduled with call_next.  An unbound widget raises
\* UnboundLocalError.
load_link(L, idx) ==
    IF L.widget = NULL THEN Raise(L)
    ELSE LET w == L.widget
             linked ==
                 IF idx # 1
                 THEN [L EXCEPT !.cell = [[L.cell EXCEPT ![L.prev].next = w]
                                            EXCEPT ![w].prev = L.prev]]
                 ELSE [L EXCEPT !.last_focused = w]
         IN  [linked EXCEPT !.prev = w, !.queue = Append(L.queue, w)]

RECURSIVE load_loop(_, _, _)
\* The loop of load_notebook from the record at index i on.
load_loop(L, cells, i) ==
    IF i > Len(cells) THEN L
    ELSE LET L1 == load_widget(L, cells[i])
         IN  IF L1.raised THEN L1
             ELSE LET L2 == load_link(L1, i)
                  IN  IF L2.raised THEN L2 ELSE load_loop(L2, cells, i + 1)

RECURSIVE mount_all(_, _)
\* The scheduled cell_container.mount(widget) calls, in order; a widget that
\* is already registered is not mounted again.
mount_all(ch, queue) ==
    IF queue = <<>> THEN ch
    ELSE mount_all(IF InSeq(ch, Head(queue)) THEN ch ELSE Append(ch, Head(queue)),
                   Tail(queue))

\* Notebook.load_notebook on the file content: the cells are built in file
\* order, each linked to the one before, the first one becomes last_focused,
\* and their mounts are scheduled.  When the loop raises, the mounts scheduled
\* so far run before the application stops (flush) or do not.
load_notebook(st, content, flush) ==
    LET L == load_loop([cell |-> st.cell, last_focused |-> st.last_focused,
                        prev |-> NULL, widget |-> NULL, queue |-> <<>>,
                        raised |-> FALSE], content.cells, 1)
    IN  [st EXCEPT !.cell = L.cell,
                   !.last_focused = L.last_focused,
                   !.children = IF L.raised /\ ~flush THEN st.children
                                ELSE mount_all(st.children, L.queue),
                   !.raised = L.raised]

\* The top-level metadata Notebook.to_nb writes: the kernel's name, its
\* kernel spec (the empty strings of get_kernel_spec's except branch, which
\* the misspelt spec.lanugage always takes) and its language info, and
\* nothing else; Notebook._metadata is never assigned from the file.
KernelMetadata ==
    {<<"kernel_info", "python3">>, <<"kernel_spec", "">>, <<"language_info", "python">>}

\* Notebook.to_nb: the cells are serialized in the order of the container's
\* children.
Notebook_to_nb(st) ==
    [metadata |-> KernelMetadata,
     nbformat |-> Nbformat, nbformat_minor |-> NbformatMinor,
     cells |-> [i \in 1..Len(st.children) |-> to_nb(st.cell[st.children[i]])]]

\* ------------------------------------------------------------ kernel proxy
\* The threads that call NotebookKernel.run_code; a caller's number is also
\* the id of the execute request it sends.
Callers == 1..MaxCallers

\* NotebookKernel.__init__: a started kernel, a client with started channels
\* and a free execution_lock.  shell is the kernel's queue of requests, iopub
\* the client's queue of broadcast messages <<type, parent>>; pc, outputs and
\* execution_count are the callers' positions and locals in run_code.
\* History: sent, the execute requests the running kernel has been sent;
\* completed, the requests whose idle status a caller has consumed; sent_at,
\* the number of restarts when a caller sent its request.
InitKernel ==
    [lock |-> NULL, stopped |-> FALSE, dead |-> FALSE, restarts |-> 0, infos |-> 0,
     shell |-> <<>>, iopub |-> <<>>,
     pc |-> [t \in Callers |-> "idle"],
     outputs |-> [t \in Callers |-> <<>>],
     execution_count |-> [t \in Callers |-> NULL],
     sent |-> {}, completed |-> {}, sent_at |-> [t \in Callers |-> 0]]

\* NotebookKernel.run_code, `with self.execution_lock:` and
\* self.kernel_client.execute(code) by caller t: with the channels stopped
\* the send raises and the lock is released by the with statement; otherwise
\* the request is on its way to the kernel.
run_code_execute(k, t) ==
    IF k.stopped THEN [k EXCEPT !.pc[t] = "raised"]
    ELSE [k EXCEPT !.lock = t, !.pc[t] = "reading",
                   !.shell = IF k.dead THEN k.shell ELSE Append(k.shell, <<"execute", t>>),
                   !.sent = k.sent \cup {t},
                   !.sent_at[t] = k.restarts]

\* The iopub message types of which run_code makes an output record.
OutputMessages == {"display_data", "stream", "error", "execute_result"}

\* The output_type run_code writes into the record of a message of type
\* msg_type before it appends the record to outputs.
output_type(msg_type) ==
    CASE msg_type = "display_data"   -> "diplay_data"
      [] msg_type = "stream"         -> "stream"
      [] msg_type = "error"          -> "error"
      [] msg_type = "execute_result" -> "execute_result"

\* One round of the loop of run_code by caller t with a message in the
\* client's queue: the message is taken whatever request it answers;
\* execute_input sets execution_count, an output is appended, an idle status
\* ends the loop, run_code returns and the lock is released.
run_code_get_iopub_msg(k, t) ==
    LET msg  == Head(k.iopub)
        rest == [k EXCEPT !.iopub = Tail(k.iopub)]
    IN  IF msg[1] = "execute_input" THEN [rest EXCEPT !.execution_count[t] = msg[2]]
        ELSE IF msg[1] \in OutputMessages
        THEN [rest EXCEPT !.outputs[t] =
                  Append(@, [output_type |-> output_type(msg[1]), parent |-> msg[2]])]
        ELSE IF msg[1] = "idle"
        THEN [rest EXCEPT !.pc[t] = "returned", !.lock = NULL,
                          !.completed = k.completed \cup {msg[2]}]
        ELSE rest

\* NotebookKernel.restart_kernel, self.kernel_client.stop_channels().
stop_channels(k) == [k EXCEPT !.stopped = TRUE]

\* NotebookKernel.restart_kernel, the rest: the kernel is replaced by a new
\* one, which has none of the old one's requests, and self.kernel_client by a
\* new client with started channels and an empty queue.  execution_lock is
\* not taken and not touched.
restart_kernel(k) ==
    [k EXCEPT !.stopped = FALSE, !.dead = FALSE, !.restarts = k.restarts + 1,
              !.shell = <<>>, !.iopub = <<>>, !.sent = {}]

\* NotebookKernel.get_language_info, called by Notebook.to_nb:
\* kernel_client.kernel_info() sends a kernel_info request on the shell
\* channel, without execution_lock; whatever goes wrong is swallowed by the
\* finally clause.
get_language_info(k) ==
    IF k.stopped \/ k.dead THEN [k EXCEPT !.infos = k.infos + 1]
    ELSE [k EXCEPT !.infos = k.infos + 1, !.shell = Append(k.shell, <<"kernel_info", NULL>>)]

\* The kernel handles the request at the head of its queue and broadcasts,
\* on iopub, a busy status, for an execute request the execute_input and one
\* output message of type out, and an idle status, each with the request as
\* its parent: the message types run_code matches.
kernel_handles(k, out) ==
    LET req == Head(k.shell)
        p   == req[2]
    IN  [k EXCEPT !.shell = Tail(k.shell),
                  !.iopub = k.iopub \o <<<<"busy", p>>>> \o
                            (IF req[1] = "execute"
                             THEN <<<<"execute_input", p>>, <<out, p>>>>
                             ELSE <<>>) \o <<<<"idle", p>>>>]

\* The kernel process stops answering: its requests are lost.
kernel_dies(k) == [k EXCEPT !.dead = TRUE, !.shell = <<>>]

\* ------------------------------------------------------------ two notebooks
\* The application with this notebook only: no second Notebook, and each
\* cell's notebook attribute is notebook 1.
NoTabs ==
    [children |-> <<>>, last_focused |-> NULL, merge_list |-> <<>>, shared |-> FALSE,
     notebook |-> [o \in Obj |-> 1]]

\* ---------------------------------------------------------------- the system
\* Notebook.__init__ and on_mount: the notebook loaded from the file at its
\* path.
Init ==
    \E content \in Files :
        LET st == load_notebook(EmptyNotebook, content, TRUE)
        IN  /\ cell = st.cell
            /\ children = st.children
            /\ last_focused = st.last_focused
            /\ last_copied = st.last_copied
            /\ merge_list = st.merge_list
            /\ op = [name |-> "load", raised |-> FALSE]
            /\ added = 0
            /\ file = content
            /\ kernel = InitKernel
            /\ tabs = NoTabs

\* The commands that go through add_cell.
AddCommands == {"add_after", "add_before", "add_code_button", "add_markdown_button"}

\* The state a handler leaves becomes the notebook's state.
Commit(name, result) ==
    LET st == Canon(result)
    IN  /\ cell' = st.cell
        /\ children' = st.children
        /\ last_focused' = st.last_focused
        /\ last_copied' = st.last_copied
        /\ merge_list' = st.merge_list
        /\ op' = [name |-> name, raised |-> st.raised]
        /\ added' = IF name \in AddCommands THEN added + 1 ELSE added
        /\ file' = file
        /\ kernel' = kernel
        /\ tabs' = tabs

\* A new object can be constructed (the model's bound on live objects).
CanAlloc == FreeSlots(cell) # {}

\* A cell can be added to the container (the model's bound on its size).
CanGrow == CanAlloc /\ Len(children) < MaxCells

\* One more cell can be added in this session (the model's bound on additions).
CanAdd == CanGrow /\ added < MaxAdded

\* The user focuses a mounted cell (click, arrow keys, tab switch).
SetFocus == \E c \in Range(children) : Commit("focus", on_descendant_focus(St, c))

AddCellAfter == CanAdd /\ Commit("add_after", add_cell(St, "code", "after", FALSE))

AddCellBefore == CanAdd /\ Commit("add_before", add_cell(St, "code", "before", FALSE))

AddCodeButton == CanAdd /\ Commit("add_code_button", add_cell(St, "code", "after", TRUE))

AddMarkdownButton ==
    CanAdd /\ Commit("add_markdown_button", add_cell(St, "markdown", "after", TRUE))

DeleteCell == Commit("delete", action_delete_cell(St))

CopyCell == Commit("copy", action_copy_cell(St))

CutCell == Commit("cut", action_cut_cell(St))

PasteCell == CanGrow /\ Commit("paste", action_paste_cell(St))

MoveUp == CanAlloc /\ Commit("move_up", action_move_up(St))

MoveDown == CanAlloc /\ Commit("move_down", action_move_down(St))

CtrlClick == \E c \in Range(children) : Commit("ctrl_click", on_mouse_down(St, c))

Escape == Commit("escape", on_key_escape(St))

\* The text a merge would build fits the model's text bound.
MergeFits(t, cells) == Len(MergeText(cell, cell[t].text, cells)) <= MaxLen

MergeCells ==
    /\ Len(merge_list) >= 2 => MergeFits(merge_list[1], Tail(merge_list))
    /\ Commit("merge", action_merge_cells(St))

\* The mounted code cells: the join bindings are those of Cell, which only
\* CodeCell extends.
CodeCells == {c \in Range(children) : cell[c].kind = "code"}

JoinAbove ==
    \E c \in CodeCells :
        /\ cell[c].prev # NULL => MergeFits(cell[c].prev, <<c>>)
        /\ Commit("join_above", action_join_above(St, c))

JoinBelow ==
    \E c \in CodeCells :
        /\ cell[c].next # NULL => MergeFits(c, <<cell[c].next>>)
        /\ Commit("join_below", action_join_below(St, c))

\* The cells whose text area can hold the input focus: the focus of a
\* CodeArea is recorded by on_descendant_focus, so a code cell being edited is
\* last_focused; the focus of a markdown cell's CopyTextAreaMarkdown is not.
Editable == {c \in Range(children) : c = last_focused \/ cell[c].kind = "markdown"}

SplitCell ==
    /\ CanGrow
    /\ \E c \in Editable : \E k \in 0..Len(cell[c].text) :
           Commit("split", action_split_cell(St, c, k))

SwitchCellType == CanAlloc /\ Commit("switch", switch_cell_type(St))

\* An editing session: focusing, adding, deleting, moving, splitting and
\* switching cells.
Next ==
    \/ SetFocus
    \/ AddCellAfter
    \/ AddCellBefore
    \/ AddCodeButton
    \/ AddMarkdownButton
    \/ DeleteCell
    \/ MoveUp
    \/ MoveDown
    \/ SplitCell
    \/ SwitchCellType

Spec == Init /\ [][Next]_vars

\* A session that selects cells for merging and merges or joins them, between
\* additions, deletions and moves.
NextMerge ==
    \/ SetFocus
    \/ AddCellAfter
    \/ DeleteCell
    \/ CtrlClick
    \/ Escape
    \/ MergeCells
    \/ JoinAbove
    \/ JoinBelow

SpecMerge == Init /\ [][NextMerge]_vars

\* A session that copies, cuts and pastes cells.
NextClipboard ==
    \/ SetFocus
    \/ AddCellAfter
    \/ DeleteCell
    \/ CopyCell
    \/ CutCell
    \/ PasteCell

SpecClipboard == Init /\ [][NextClipboard]_vars

\* Key c on the cell that has the focus.
Collapse ==
    /\ last_focused # NULL /\ InSeq(children, last_focused)
    /\ Commit("collapse", action_collapse(St, last_focused))

\* A click on the collapse button of a mounted cell.
ClickCollapse ==
    \E c \in Range(children) : Commit("click_collapse", CollapseLabel_on_click(St, c))

\* A click on the output collapse button of a mounted code cell; CodeCell.on_mount
\* displays the button only when the cell has outputs.
ClickOutputCollapse ==
    \E c \in CodeCells :
        /\ cell[c].outputs # <<>>
        /\ Commit("click_output_collapse", OutputCollapseLabel_on_click(St, c))

\* A session that collapses and expands cells, between focus changes,
\* additions, deletions and moves.
NextCollapse ==
    \/ SetFocus
    \/ AddCellAfter
    \/ DeleteCell
    \/ MoveDown
    \/ Collapse
    \/ ClickCollapse
    \/ ClickOutputCollapse

SpecCollapse == Init /\ [][NextCollapse]_vars

\* A click on the run button of a mounted code cell that is not running, or
\* ctrl+r in it: run_cell in a worker.
RunCell ==
    \E c \in CodeCells : ~cell[c].running /\ Commit("run", run_cell(St, c))

\* The buttons run-all, run-after and run-before.
RunAllCells == Commit("run_all", run_all_cells(St).st)

RunCellsAfter == Commit("run_after", run_cells_after(St).st)

RunCellsBefore == Commit("run_before", run_cells_before(St).st)

\* A session that runs cells, one by one and in batches, between focus
\* changes, additions, deletions and moves.
NextRun ==
    \/ SetFocus
    \/ AddCellAfter
    \/ DeleteCell
    \/ MoveDown
    \/ RunCell
    \/ RunAllCells
    \/ RunCellsAfter
    \/ RunCellsBefore

SpecRun == Init /\ [][NextRun]_vars

\* The texts typed in the snapshot session.
Typed == {<<"c">>}

\* The user types in the text area of a cell: the text area holds the new
\* text, and nothing else of the notebook changes.
EditSource ==
    \E c \in Range(children), text \in Typed :
        /\ cell[c].text # text
        /\ Commit("edit", [St EXCEPT !.cell = [cell EXCEPT ![c].text = text]])

\* A session that copies, cuts and pastes between edits, runs, moves, merges
\* of a cell with its successor, and deletions.
NextSnapshot ==
    \/ SetFocus
    \/ EditSource
    \/ DeleteCell
    \/ CopyCell
    \/ CutCell
    \/ Len(children) <= MaxPasteInto /\ PasteCell
    \/ MoveDown
    \/ JoinBelow
    \/ RunCell

SpecSnapshot == Init /\ [][NextSnapshot]_vars

\* A thread is started on run_code and comes to its with statement.
CallRunCode(t) ==
    /\ kernel.pc[t] = "idle"
    /\ kernel' = [kernel EXCEPT !.pc[t] = "waiting"]
    /\ UNCHANGED nbvars

\* The thread gets the lock and sends its request.
Execute(t) ==
    /\ kernel.pc[t] = "waiting"
    /\ kernel.lock = NULL
    /\ kernel' = run_code_execute(kernel, t)
    /\ UNCHANGED nbvars

\* get_iopub_msg() of the thread returns a message; it blocks while the
\* queue is empty, and raises into the loop's `except: pass` while the
\* channels are stopped.
GetIopubMsg(t) ==
    /\ kernel.pc[t] = "reading"
    /\ ~kernel.stopped
    /\ kernel.iopub # <<>>
    /\ kernel' = run_code_get_iopub_msg(kernel, t)
    /\ UNCHANGED nbvars

\* The restart button, first statement of restart_kernel.
StopChannels ==
    /\ ~kernel.stopped
    /\ kernel.restarts < MaxRestarts
    /\ kernel' = stop_channels(kernel)
    /\ UNCHANGED nbvars

\* The rest of restart_kernel.
RestartKernel ==
    /\ kernel.stopped
    /\ kernel' = restart_kernel(kernel)
    /\ UNCHANGED nbvars

\* A save asks the kernel for its language info.
GetLanguageInfo ==
    /\ kernel.infos < MaxInfo
    /\ kernel' = get_language_info(kernel)
    /\ UNCHANGED nbvars

KernelHandles ==
    /\ kernel.shell # <<>>
    /\ \E out \in OutputMessages : kernel' = kernel_handles(kernel, out)
    /\ UNCHANGED nbvars

KernelDies ==
    /\ ~kernel.dead
    /\ kernel' = kernel_dies(kernel)
    /\ UNCHANGED nbvars

\* The kernel proxy with its callers, the kernel behind it, and the
\* notebook's restart button and saves.
NextKernel ==
    \/ \E t \in Callers : CallRunCode(t)
    \/ \E t \in Callers : Execute(t)
    \/ \E t \in Callers : GetIopubMsg(t)
    \/ StopChannels
    \/ RestartKernel
    \/ GetLanguageInfo
    \/ KernelHandles
    \/ KernelDies

SpecKernel == Init /\ [][NextKernel]_vars

\* The threads run, blocked calls return when they can, the kernel handles
\* its requests, and a restart that was begun is finished.  Pressing restart,
\* saving, starting a run and the death of the kernel are never obliged to
\* happen: a caller blocked in get_iopub_msg() with both queues empty stays
\* blocked unless one of them does.
FairKernel ==
    /\ \A t \in Callers : WF_vars(Execute(t)) /\ WF_vars(GetIopubMsg(t))
    /\ WF_vars(KernelHandles)
    /\ WF_vars(RestartKernel)

SpecKernelLive == Init /\ [][NextKernel]_vars /\ FairKernel

\* ------------------------------------------------------ opening and saving
\* The cell records a file can hold at position i: a code cell with outputs,
\* a markdown cell with a list source, a code record without its "source"
\* key, and a record of cell_type "raw".
Records(i) ==
    { [cell_type |-> "code", execution_count |-> 1, id |-> i, metadata |-> {},
       outputs |-> <<"stream">>, source |-> Str(<<"a">>)],
      [cell_type |-> "markdown", id |-> i, metadata |-> {<<"tags", "x">>},
       source |-> Lines(<< <<"b">> >>)],
      [cell_type |-> "code", execution_count |-> NULL, id |-> i, metadata |-> {},
       outputs |-> <<>>],
      [cell_type |-> "raw", id |-> i, metadata |-> {}, source |-> Str(<<"c">>)] }

\* The cell lists of at most MaxCells records.
CellLists ==
    UNION { {cells \in [1..n -> UNION {Records(i) : i \in 1..MaxCells}] :
                \A i \in 1..n : cells[i] \in Records(i)} : n \in 0..MaxCells }

\* The top-level metadata of such a file: none, or the kernel's name with a
\* key the editor does not know.
FileMetadata == {{}, {<<"kernel_info", "python3">>, <<"custom", "x">>}}

\* The files the application may be started on, written by another program.
LoadFiles ==
    {[nbformat |-> 4, nbformat_minor |-> 4, metadata |-> metadata, cells |-> cells] :
        metadata \in FileMetadata, cells \in CellLists}

\* Notebook.__init__ on a path: the notebook before on_mount's load_notebook
\* has run.
InitLoad ==
    /\ file \in LoadFiles
    /\ cell = EmptyNotebook.cell
    /\ children = EmptyNotebook.children
    /\ last_focused = EmptyNotebook.last_focused
    /\ last_copied = EmptyNotebook.last_copied
    /\ merge_list = EmptyNotebook.merge_list
    /\ op = [name |-> "init", raised |-> FALSE]
    /\ added = 0
    /\ kernel = InitKernel
    /\ tabs = NoTabs

\* on_mount's call_after_refresh(self.load_notebook).
LoadNotebook ==
    /\ op.name = "init"
    /\ \E flush \in BOOLEAN : Commit("load", load_notebook(St, file, flush))

\* The notebook is loaded and no handler has raised: the user can act.
Loaded == op.name # "init" /\ ~op.raised

\* Notebook.action_save on a notebook with a path: save_notebook writes
\* to_nb() to the file.
SaveNotebook ==
    /\ Loaded
    /\ kernel.infos < MaxInfo
    /\ file' = Notebook_to_nb(St)
    /\ kernel' = get_language_info(kernel)
    /\ op' = [name |-> "save", raised |-> FALSE]
    /\ UNCHANGED <<cell, children, last_focused, last_copied, merge_list, added, tabs>>

\* The tab is closed, or the application has stopped, and the file is opened
\* again: a new Notebook on the same path.
Reopen ==
    /\ op.name # "init"
    /\ cell' = EmptyNotebook.cell
    /\ children' = EmptyNotebook.children
    /\ last_focused' = EmptyNotebook.last_focused
    /\ last_copied' = EmptyNotebook.last_copied
    /\ merge_list' = EmptyNotebook.merge_list
    /\ op' = [name |-> "init", raised |-> FALSE]
    /\ added' = 0
    /\ file' = file
    /\ kernel' = InitKernel
    /\ tabs' = tabs

\* A session that opens a file, edits, saves and opens the file again.
NextLoad ==
    \/ LoadNotebook
    \/ Loaded /\ SetFocus
    \/ Loaded /\ AddCellAfter
    \/ Loaded /\ DeleteCell
    \/ Loaded /\ MoveDown
    \/ SaveNotebook
    \/ Reopen

SpecLoad == InitLoad /\ [][NextLoad]_vars

\* ------------------------------------------------- two notebooks in tabs
\* The tabs of the application.
Tabs == {1, 2}

\* The container's children, last_focused and self._merge_list of the
\* notebook in tab n.
TabChildren(n) == IF n = 1 THEN children ELSE tabs.children

TabLastFocused(n) == IF n = 1 THEN last_focused ELSE tabs.last_focused

TabMergeList(n) == IF n = 1 THEN merge_list ELSE tabs.merge_list

\* The notebook in tab n as its handlers see it; ch is the part of the
\* widget tree the handler can reach.
TabSt(n, ch) ==
    [cell |-> cell, children |-> ch, last_focused |-> TabLastFocused(n),
     last_copied |-> NoCopy, merge_list |-> TabMergeList(n), raised |-> FALSE]

\* The application with two files open (NotebookApp.compose yields one
\* Notebook per path): both are loaded, their cells are objects of one heap,
\* and neither Notebook has assigned self._merge_list, so both read the list
\* of the class attribute Notebook._merge_list.
InitTabs ==
    \E f1, f2 \in Files :
        /\ f1.cells # <<>> /\ f2.cells # <<>>
        /\ Len(f1.cells) + Len(f2.cells) <= MaxObj
        /\ LET st1 == load_notebook(EmptyNotebook, f1, TRUE)
               st2 == load_notebook([EmptyNotebook EXCEPT !.cell = st1.cell], f2, TRUE)
           IN  /\ cell = st2.cell
               /\ children = st1.children
               /\ last_focused = st1.last_focused
               /\ last_copied = NoCopy
               /\ merge_list = <<>>
               /\ op = [name |-> "load", raised |-> FALSE]
               /\ added = 0
               /\ file = f1
               /\ kernel = InitKernel
               /\ tabs = [children |-> st2.children, last_focused |-> st2.last_focused,
                          merge_list |-> <<>>, shared |-> TRUE,
                          notebook |-> [o \in Obj |-> IF InSeq(st2.children, o) THEN 2 ELSE 1]]

\* The handler of the notebook in tab n has left cs, the children ch1 and
\* ch2 of the two containers, its own last_focused lf and list ml; other is
\* the last_focused of the other notebook.  mutated: the list object was
\* changed in place, and the other notebook sees the change when it reads
\* the same object; otherwise self._merge_list was assigned, and the notebook
\* has a list of its own from then on.
TabCommit(name, n, cs, ch1, ch2, lf, other, ml, mutated, raised) ==
    /\ cell' = cs
    /\ children' = ch1
    /\ last_focused' = IF n = 1 THEN lf ELSE other
    /\ merge_list' = IF n = 1 \/ (mutated /\ tabs.shared) THEN ml ELSE merge_list
    /\ tabs' = [tabs EXCEPT
                  !.children = ch2,
                  !.last_focused = IF n = 2 THEN lf ELSE other,
                  !.merge_list = IF n = 2 \/ (mutated /\ tabs.shared) THEN ml ELSE @,
                  !.shared = tabs.shared /\ mutated]
    /\ op' = [name |-> name, raised |-> raised]
    /\ UNCHANGED <<last_copied, added, file, kernel>>

\* Ctrl-click on cell c of the notebook in tab n: Cell.on_mouse_down appends
\* to, or removes from, self.notebook._merge_list.
TabCtrlClick(n) ==
    \E c \in Range(TabChildren(n)) :
        LET d == on_mouse_down(TabSt(n, TabChildren(n)), c)
        IN  TabCommit("tab_ctrl_click", n, d.cell, children, tabs.children,
                      TabLastFocused(n), TabLastFocused(3 - n), d.merge_list, TRUE, d.raised)

\* Escape in the notebook in tab n.
TabEscape(n) ==
    LET d == on_key_escape(TabSt(n, TabChildren(n)))
    IN  TabCommit("tab_escape", n, d.cell, children, tabs.children,
                  TabLastFocused(n), TabLastFocused(3 - n), d.merge_list, FALSE, d.raised)

\* The rest of a sequence of cells after a handler that left the widgets of
\* ch mounted.
StillMounted(cells, ch) == SelectSeq(cells, LAMBDA c : InSeq(ch, c))

\* The merge command in the notebook in tab n.  cell.remove() takes a merged
\* cell out of the container it is mounted in, whichever notebook that is;
\* the target's focus() is recorded by the notebook the target is mounted
\* in, and the focus of a target in the tab that is not shown is taken or
\* not.
TabMergeCells(n) ==
    LET ml == TabMergeList(n)
        d  == action_merge_cells(TabSt(n, children \o tabs.children))
        t  == ml[1]
        merged == Len(ml) >= 2 /\ ~d.raised
        ch1 == StillMounted(children, d.children)
        ch2 == StillMounted(tabs.children, d.children)
    IN  /\ Len(ml) >= 2 => Len(MergeText(cell, cell[t].text, Tail(ml))) <= MaxLen
        /\ \E taken \in BOOLEAN :
              LET own == merged /\ InSeq(TabChildren(n), t) /\ InSeq(d.children, t)
                  far == merged /\ InSeq(TabChildren(3 - n), t) /\ InSeq(d.children, t)
                             /\ taken
              IN  TabCommit("tab_merge", n, d.cell, ch1, ch2,
                            IF own THEN t ELSE TabLastFocused(n),
                            IF far THEN t ELSE TabLastFocused(3 - n),
                            d.merge_list, ~merged, d.raised)

\* A session in two notebooks: cells are selected, selections are dropped
\* and merged.
NextTabs ==
    \/ \E n \in Tabs : TabCtrlClick(n)
    \/ \E n \in Tabs : TabEscape(n)
    \/ \E n \in Tabs : TabMergeCells(n)

SpecTabs == InitTabs /\ [][NextTabs]_vars

\* ------------------------------------------------------------------ claims
\* The cells of the Document: the mounted ones.
InDocument(c) == InSeq(children, c)

\* C1. Neighbor invariant: every cell c of the Document with c.prev = p
\* non-null has p.next = c, and every cell c with c.next = n non-null has
\* n.prev = c.
C1_NeighborInvariant ==
    \A c \in Range(children) :
        /\ cell[c].prev # NULL => cell[cell[c].prev].next = c
        /\ cell[c].next # NULL => cell[cell[c].next].prev = c

RECURSIVE Chain(_, _, _)
\* The cells met by following next from c, at most n of them.
Chain(cs, c, n) ==
    IF c = NULL \/ n = 0 THEN <<>> ELSE <<c>> \o Chain(cs, cs[c].next, n - 1)

\* The cells of the Document whose prev is null.
Heads == {c \in Range(children) : cell[c].prev = NULL}

\* C2. Order agreement: the container's children are exactly the sequence
\* obtained by following next from the unique cell whose prev is null.
C2_OrderAgreement ==
    children # <<>> =>
        /\ Cardinality(Heads) = 1
        /\ \A h \in Heads : Chain(cell, h, MaxObj + 1) = children

\* C3. delete(cell) returns as the next cell to focus the predecessor of the
\* deleted cell if there is one, otherwise its successor, otherwise none.
C3_DeleteFocusesPredecessor ==
    (last_focused # NULL /\ InDocument(last_focused)) =>
        action_delete_cell(St).last_focused =
            IF cell[last_focused].prev # NULL THEN cell[last_focused].prev
            ELSE cell[last_focused].next

\* C4. A cell that an operation has unspliced (it is no longer in the
\* Document, yet something still refers to it) has prev and next both null.
C4_RemovedCellUnlinked ==
    \A o \in Obj :
        (cell[o] # Free /\ ~InDocument(o)) =>
            (cell[o].prev = NULL /\ cell[o].next = NULL)

\* The new cell w is the immediate neighbour of cell c on the given side, in
\* the links and in the children of state r.
Adjacent(r, c, w, position) ==
    IF position = "after"
    THEN /\ r.cell[c].next = w /\ r.cell[w].prev = c
         /\ IndexOf(r.children, w) = IndexOf(r.children, c) + 1
    ELSE /\ r.cell[c].prev = w /\ r.cell[w].next = c
         /\ IndexOf(r.children, w) + 1 = IndexOf(r.children, c)

\* What C5 says of one insert, with relativeTo the focused cell.
InsertLaw(kind, position, open) ==
    LET r == add_cell(St, kind, position, open)
        w == NewObj(cell)
    IN  /\ ~r.raised
        /\ InSeq(r.children, w) /\ ~InDocument(w)
        /\ Without(r.children, w) = children
        /\ r.cell[w].kind = kind
        /\ r.cell[w].text = <<>> /\ r.cell[w].outputs = <<>>
        /\ \A c \in Range(children) :
               [r.cell[c] EXCEPT !.prev = NULL, !.next = NULL]
                   = [cell[c] EXCEPT !.prev = NULL, !.next = NULL]
        /\ last_focused # NULL => Adjacent(r, last_focused, w, position)
        /\ children = <<>> =>
               /\ r.children = <<w>>
               /\ r.cell[w].prev = NULL /\ r.cell[w].next = NULL
               /\ r.last_focused = w

\* C5. insert(kind, relativeTo, position) adds exactly one new empty cell of
\* the kind: after relativeTo it is its immediate successor, before relativeTo
\* its immediate predecessor, all other cells keep their order; in an empty
\* Document it is the sole cell, has prev = next = null and becomes the active
\* cell.  relativeTo is last_focused, as in every call of add_cell.
C5_InsertLaw ==
    CanAlloc =>
        \A kind \in {"code", "markdown"} : \A position \in {"after", "before"} :
            \A open \in BOOLEAN : InsertLaw(kind, position, open)

\* The contents a cell carries: its id, kind, source, outputs, execution
\* count and metadata.
Content(c) ==
    [id |-> c.id, kind |-> c.kind, source |-> c.text, outputs |-> c.outputs,
     execution_count |-> c.exec_count, metadata |-> c.metadata]

\* What C6 says of a move of the focused cell c in direction position
\* ("before": up, across its predecessor; "after": down, across its successor)
\* that leaves state r.
MoveLaw(r, position) ==
    LET c == last_focused
        w == NewObj(cell)
        p == IF position = "before" THEN cell[c].prev ELSE cell[c].next
    IN  /\ ~r.raised
        /\ Len(r.children) = Len(children)
        /\ Content(r.cell[w]) = Content(cell[c])
        /\ ~InSeq(r.children, c) /\ InSeq(r.children, w)
        /\ Adjacent(r, p, w, position)
        /\ Without(r.children, w) = Without(children, c)
        /\ r.last_focused = w

\* C6. moveUp(c) on a cell with predecessor p leaves the same number of
\* cells, a cell with c's id and content immediately before p, the old object
\* out of the Document, every other cell in its relative order, and the moved
\* cell active; moveDown(c) is the mirror image with the successor.
C6_MoveLaw ==
    (CanAlloc /\ last_focused # NULL /\ InDocument(last_focused)) =>
        /\ cell[last_focused].prev # NULL => MoveLaw(action_move_up(St), "before")
        /\ cell[last_focused].next # NULL => MoveLaw(action_move_down(St), "after")

\* The ids and contents of the Document's cells, in rendered order.
Order(st) == [i \in 1..Len(st.children) |-> Content(st.cell[st.children[i]])]

\* C7. For a cell c with both a predecessor and a successor, moveDown(c)
\* followed by moveUp of the moved cell restores the original order of the
\* cell ids and contents of the whole Document.
C7_MoveDownUpRestores ==
    (/\ CanAlloc
     /\ last_focused # NULL /\ InDocument(last_focused)
     /\ cell[last_focused].prev # NULL /\ cell[last_focused].next # NULL) =>
        Order(action_move_up(Collect(action_move_down(St)))) = Order(St)

RECURSIVE Joined(_, _)
\* A newline and the source of each of the cells, in order.
Joined(cs, cells) ==
    IF cells = <<>> THEN <<>>
    ELSE <<"\n">> \o cs[Head(cells)].text \o Joined(cs, Tail(cells))

\* C8. Merge law: merging with target t, the first selected cell, and others
\* o1..on leaves t in its position with its kind and with the source
\* t.source + "\n" + o1.source + ... + "\n" + on.source; none of o1..on
\* remains in the sequence; the cells outside the selection are unchanged and
\* keep their relative order.
C8_MergeLaw ==
    Len(merge_list) >= 2 =>
        LET t      == merge_list[1]
            others == Range(Tail(merge_list))
            r      == action_merge_cells(St)
        IN  /\ InSeq(r.children, t)
            /\ r.children = SelectSeq(children, LAMBDA c : c \notin others)
            /\ r.cell[t].kind = cell[t].kind
            /\ r.cell[t].text = cell[t].text \o Joined(cell, Tail(merge_list))
            /\ \A c \in Range(children) \ Range(merge_list) :
                   Content(r.cell[c]) = Content(cell[c])

\* The first k characters of s, and the rest of s.
Prefix(s, k) == [i \in 1..k |-> s[i]]

Suffix(s, k) == [i \in 1..(Len(s) - k) |-> s[i + k]]

\* C9. Split law: after split(c, k), 0 <= k <= len(c.source), the source of
\* c is the first k characters of the old source, the source of the new cell
\* is the rest, and the two concatenated are the old source.
C9_SplitLaw ==
    CanAlloc =>
        \A c \in Range(children) : \A k \in 0..Len(cell[c].text) :
            LET r == action_split_cell(St, c, k)
                w == NewObj(cell)
            IN  /\ r.cell[c].text = Prefix(cell[c].text, k)
                /\ r.cell[w].text = Suffix(cell[c].text, k)
                /\ r.cell[c].text \o r.cell[w].text = cell[c].text

\* A two-character markdown cell has been split in the middle.
C9_Witness ==
    /\ op = [name |-> "split", raised |-> FALSE]
    /\ \E i \in 1..(Len(children) - 1) :
           /\ cell[children[i]].text = <<"a">>
           /\ cell[children[i + 1]].text = <<"b">>
           /\ cell[children[i]].metadata # {}
           /\ cell[children[i + 1]].kind = "markdown"

\* C10. split(cell, offset) creates exactly one new cell, of the kind of the
\* cell being split, and the new cell is the immediate successor of the split
\* cell in the links and in the rendered sequence, whichever cell is the
\* active one.
C10_SplitSuccessor ==
    CanAlloc =>
        \A c \in Range(children) : \A k \in 0..Len(cell[c].text) :
            LET r == action_split_cell(St, c, k)
                w == NewObj(cell)
            IN  /\ InSeq(r.children, w) /\ ~InDocument(w)
                /\ Without(r.children, w) = children
                /\ r.cell[w].kind = cell[c].kind
                /\ Adjacent(r, c, w, "after")

\* C11. switchType(cell) replaces the active cell by a new cell of the
\* opposite kind with the same source text, no outputs and no execution
\* count, in the old cell's position (same predecessor and successor); the
\* old cell is no longer in the Document, the number of cells is unchanged
\* and the new cell is the active cell.
C11_SwitchLaw ==
    (CanAlloc /\ last_focused # NULL) =>
        LET c == last_focused
            r == switch_cell_type(St)
            w == NewObj(cell)
        IN  /\ ~r.raised
            /\ r.cell[w].kind = IF cell[c].kind = "code" THEN "markdown" ELSE "code"
            /\ r.cell[w].text = cell[c].text
            /\ r.cell[w].outputs = <<>> /\ r.cell[w].exec_count = NULL
            /\ r.cell[w].prev = cell[c].prev /\ r.cell[w].next = cell[c].next
            /\ ~InSeq(r.children, c)
            /\ r.children = [i \in 1..Len(children) |->
                                IF children[i] = c THEN w ELSE children[i]]
            /\ r.last_focused = w

\* The ids of the cells of the Document.
DocumentIds == {cell[c].id : c \in Range(children)}

\* What C12 says of a paste in the notebook state s (the reachable state, or
\* the one a copy leaves), whose Clipboard holds a snapshot.
PasteLaw(s) ==
    LET r    == action_paste_cell(s)
        w    == NewObj(cell)
        snap == s.last_copied
    IN  /\ ~r.raised
        /\ InSeq(r.children, w) /\ ~InDocument(w)
        /\ Without(r.children, w) = children
        /\ r.cell[w].kind = snap.cell_type
        /\ r.cell[w].text = join_source(snap.source)
        /\ r.cell[w].metadata = snap.metadata
        /\ snap.cell_type = "code" =>
               /\ r.cell[w].outputs = snap.outputs
               /\ r.cell[w].exec_count = snap.execution_count
        /\ r.cell[w].id # snap.id
        /\ r.cell[w].id \notin DocumentIds
        /\ last_focused # NULL => Adjacent(r, last_focused, w, "after")
        /\ children = <<>> => r.children = <<w>>

\* C12. paste creates exactly one new cell whose kind, source, metadata,
\* outputs and execution count are those of the last Clipboard snapshot,
\* whose id is new (not the snapshot's, not that of a cell of the Document),
\* and which is inserted adjacent to the active cell, or as the sole cell of
\* an empty Document.  The Clipboard is the one of the state, or the one a
\* copy of the active cell leaves.
C12_PasteLaw ==
    CanGrow =>
        \A s \in {St, action_copy_cell(St)} :
            s.last_copied # NoCopy => PasteLaw(s)

\* The record snap is the snapshot of the cell c: its kind, id, source,
\* metadata and, for a code cell, its outputs and execution count.
SnapshotOf(snap, c) ==
    /\ snap.cell_type = c.kind
    /\ snap.id = c.id
    /\ join_source(snap.source) = c.text
    /\ snap.metadata = c.metadata
    /\ c.kind = "code" =>
           /\ snap.outputs = c.outputs
           /\ snap.execution_count = c.exec_count

\* C13. copy stores a snapshot of the active cell in the Clipboard and leaves
\* the Document unchanged: the cell sequence, every cell's content and links,
\* the active cell and the merge selection.
C13_CopyFrame ==
    last_focused # NULL =>
        LET r == action_copy_cell(St)
        IN  /\ ~r.raised
            /\ SnapshotOf(r.last_copied, cell[last_focused])
            /\ r.children = children
            /\ r.cell = cell
            /\ r.last_focused = last_focused
            /\ r.merge_list = merge_list

\* A code cell with outputs has just been copied.
C13_Witness ==
    /\ op = [name |-> "copy", raised |-> FALSE]
    /\ last_focused # NULL /\ InDocument(last_focused)
    /\ SnapshotOf(last_copied, cell[last_focused])
    /\ last_copied.cell_type = "code" /\ last_copied.outputs # <<>>

\* C14. cut is copy followed by delete: afterwards the Clipboard holds the
\* snapshot of the cut cell as it was before the removal, and the Document
\* and the active cell are those delete alone would have produced.
C14_CutIsCopyDelete ==
    last_focused # NULL =>
        LET r == action_cut_cell(St)
            d == action_delete_cell(St)
        IN  /\ SnapshotOf(r.last_copied, cell[last_focused])
            /\ r.children = d.children
            /\ r.cell = d.cell
            /\ r.last_focused = d.last_focused
            /\ r.merge_list = d.merge_list
            /\ r.raised = d.raised
            /\ r = action_delete_cell(action_copy_cell(St))

\* A cell has just been cut: the Clipboard holds a snapshot whose id no cell
\* of the Document carries, and the Document still has a cell.
C14_Witness ==
    /\ op = [name |-> "cut", raised |-> FALSE]
    /\ last_copied # NoCopy
    /\ last_copied.id \notin DocumentIds
    /\ children # <<>>

\* C15. Commands issued in an invalid context are no-ops: moveUp on the first
\* cell of the sequence, moveDown on the last cell, merge with fewer than 2
\* selected cells, paste with an empty Clipboard, and delete, copy, cut, move
\* and switchType with no active cell leave the cell sequence, all links, all
\* cell contents, the Clipboard, the selection and the active cell unchanged
\* and raise nothing.
C15_InvalidContextNoOp ==
    /\ (CanAlloc /\ children # <<>> /\ last_focused = children[1]) =>
           action_move_up(St) = St
    /\ (CanAlloc /\ children # <<>> /\ last_focused = children[Len(children)]) =>
           action_move_down(St) = St
    /\ Len(merge_list) < 2 => action_merge_cells(St) = St
    /\ last_copied = NoCopy => action_paste_cell(St) = St
    /\ last_focused = NULL =>
           /\ action_delete_cell(St) = St
           /\ action_copy_cell(St) = St
           /\ action_cut_cell(St) = St
           /\ action_move_up(St) = St
           /\ action_move_down(St) = St
           /\ switch_cell_type(St) = St

\* The collapse states of a code cell record.
Expanded(c) == ~c.collapsed /\ ~c.output_collapsed

BothCollapsed(c) == c.collapsed /\ c.output_collapsed

Partial(c) == c.collapsed # c.output_collapsed

\* C16. Collapse command on a Code cell: if codeCollapsed or outputCollapsed
\* is false before the command, both are true after it; if both are true
\* before it, both are false after it; nothing else of the state changes.
C16_CollapseLaw ==
    \A c \in CodeCells :
        LET r == action_collapse(St, c)
        IN  /\ ~BothCollapsed(cell[c]) => BothCollapsed(r.cell[c])
            /\ BothCollapsed(cell[c]) => Expanded(r.cell[c])
            /\ r = [St EXCEPT !.cell = [cell EXCEPT
                        ![c].collapsed = r.cell[c].collapsed,
                        ![c].output_collapsed = r.cell[c].output_collapsed]]

\* The collapse command has just left the focused code cell BothCollapsed
\* while another code cell is partially collapsed after a click.
C16_Witness ==
    /\ op.name = "collapse"
    /\ last_focused # NULL
    /\ cell[last_focused].kind = "code"
    /\ BothCollapsed(cell[last_focused])
    /\ \E c \in CodeCells : c # last_focused /\ Partial(cell[c])

\* The number of mounted code cells that are partially collapsed.
NumPartial(cs, ch) == Cardinality({i \in 1..Len(ch) : cs[ch[i]].kind = "code" /\ Partial(cs[ch[i]])})

\* What C17 says of one step.
CollapseStepLaw ==
    /\ op'.name = "collapse" =>
          (cell[last_focused].kind = "code" =>
              /\ last_focused' = last_focused
              /\ ~Partial(cell'[last_focused])
              /\ Expanded(cell[last_focused]) => BothCollapsed(cell'[last_focused])
              /\ BothCollapsed(cell[last_focused]) => Expanded(cell'[last_focused])
              /\ Partial(cell[last_focused]) => BothCollapsed(cell'[last_focused]))
    /\ NumPartial(cell', children') > NumPartial(cell, children) =>
          op'.name \in {"click_collapse", "click_output_collapse"}

C18_RoundTrip ==
    LET back == load_notebook(EmptyNotebook, Notebook_to_nb(St), TRUE)
    IN  /\ ~back.raised
        /\ Order(back) = Order(St)

\* A file saved by the notebook has just been loaded again: the Document has
\* a code cell with outputs after a markdown cell, and its serialization is
\* the file's cell list.
C18_Witness ==
    /\ op = [name |-> "load", raised |-> FALSE]
    /\ file.nbformat_minor = NbformatMinor
    /\ Len(children) >= 2
    /\ cell[children[1]].kind = "markdown"
    /\ cell[children[2]].kind = "code" /\ cell[children[2]].outputs # <<>>
    /\ Notebook_to_nb(St) = file

\* The record lacks a key its cell type requires.
LacksKey(rec) ==
    /\ rec.cell_type \in {"code", "markdown"}
    /\ ~(RequiredKeys(rec.cell_type) \subseteq DOMAIN rec)

\* C19. Loading a file in which some cell record lacks a key required for
\* its cell type fails as a whole: the load raises, and no cell is created,
\* mounted, linked or made the active cell, the well-formed records before
\* the malformed one included.
C19_MalformedLoadFails ==
    (op.name = "load" /\ \E i \in 1..Len(file.cells) : LacksKey(file.cells[i])) =>
        /\ op.raised
        /\ children = <<>>
        /\ last_focused = NULL
        /\ \A o \in Obj : cell[o] = Free

\* C20. Loading a file that contains a record whose cell_type is neither
\* "code" nor "markdown", at any index, is a fatal error of the load: the
\* load raises (the record is not silently skipped), no cell is mounted
\* twice, and no cell has prev or next pointing to itself.
C20_UnknownTypeFatal ==
    (op.name = "load" /\
     \E i \in 1..Len(file.cells) : file.cells[i].cell_type \notin {"code", "markdown"}) =>
        /\ op.raised
        /\ \A i, j \in 1..Len(children) : children[i] = children[j] => i = j
        /\ \A o \in Obj : cell[o] # Free => cell[o].prev # o /\ cell[o].next # o

\* The metadata keys the editor itself writes or reads.
KnownKeys == {"kernel_info", "kernel_spec", "language_info", "collapsed"}

\* The entries of a metadata whose keys the editor does not recognise.
Unknown(metadata) == {kv \in metadata : kv[1] \notin KnownKeys}

\* C21. Metadata keys the editor does not recognise, in the notebook's
\* top-level metadata and in each cell's metadata, are written back verbatim
\* when a loaded notebook is saved: right after a file has been loaded, the
\* serialization of the notebook has every unknown entry of the file's
\* top-level metadata and, cell by cell, every unknown entry of the record's
\* metadata.
C21_MetadataPreserved ==
    (op = [name |-> "load", raised |-> FALSE] /\ Len(children) = Len(file.cells)) =>
        LET nb == Notebook_to_nb(St)
        IN  /\ Unknown(file.metadata) \subseteq nb.metadata
            /\ \A i \in 1..Len(file.cells) :
                   Unknown(file.cells[i].metadata) \subseteq nb.cells[i].metadata

\* C22. Run protocol: for a Code cell with non-empty source, run sets
\* running to true and dispatches the request without raising; running stays
\* true until the kernel call completes, and the completion writes the
\* returned outputs and execution count to the cell and sets running false.
C22_RunProtocol ==
    \A c \in CodeCells :
        (cell[c].text # <<>> /\ ~cell[c].running) =>
            LET d == run_cell(St, c)
                r == run_cell_complete(d, c, KernelOutputs, 1)
            IN  /\ ~d.raised
                /\ d.cell[c].running
                /\ d.cell[c].outputs = cell[c].outputs
                /\ ~r.cell[c].running
                /\ r.cell[c].outputs = KernelOutputs
                /\ r.cell[c].exec_count = 1

\* The code cells with source among the cells, in their order.
Runnable(cs, cells) ==
    SelectSeq(cells, LAMBDA c : cs[c].kind = "code" /\ cs[c].text # <<>>)

\* C24. Batch commands run the code cells of their range one after the
\* other, each awaited before the next is dispatched, in document order: run
\* all executes the code cells with source of the whole Document, run after
\* those from the active cell on, run before those before the active cell, and
\* none of them raises.
C24_BatchOrder ==
    (last_focused # NULL /\ InSeq(children, last_focused)) =>
        LET i == IndexOf(children, last_focused)
            all    == run_all_cells(St)
            after  == run_cells_after(St)
            before == run_cells_before(St)
        IN  /\ ~all.st.raised
            /\ all.ran = Runnable(cell, children)
            /\ ~after.st.raised
            /\ after.ran = Runnable(cell, SubSeq(children, i, Len(children)))
            /\ ~before.st.raised
            /\ before.ran = Runnable(cell, SubSeq(children, 1, i - 1))

\* The neighbor invariant in the notebook state st.
NeighborOk(st) ==
    \A c \in Range(st.children) :
        /\ st.cell[c].prev # NULL => st.cell[st.cell[c].prev].next = c
        /\ st.cell[c].next # NULL => st.cell[st.cell[c].next].prev = c

\* The structural operations on the cell x that the claim C25 is checked
\* with: x is focused and deleted, moved up or moved down.
OnOther(st, x) ==
    LET s == on_descendant_focus(st, x)
    IN  {action_delete_cell(s), action_move_up(s), action_move_down(s)}

C28_UnavailableKernelNotice ==
    \A c \in CodeCells :
        LET d == run_cell(St, c)
            i == interrupt_cell(St, c)
        IN  /\ ~d.raised
            /\ ~i.raised
            /\ i = St
            /\ "initialized" \notin NotebookKernelAttributes => d = St

\* C29. No user-facing command raises when there is no active cell: delete,
\* copy, cut, paste, moveUp, moveDown, merge, switchType, run all, run before
\* and run after.
C29_NoActiveCellNoRaise ==
    last_focused = NULL =>
        /\ ~action_delete_cell(St).raised
        /\ ~action_copy_cell(St).raised
        /\ ~action_cut_cell(St).raised
        /\ CanGrow => ~action_paste_cell(St).raised
        /\ ~action_move_up(St).raised
        /\ ~action_move_down(St).raised
        /\ ~action_merge_cells(St).raised
        /\ ~switch_cell_type(St).raised
        /\ ~run_all_cells(St).st.raised
        /\ ~run_cells_after(St).st.raised
        /\ ~run_cells_before(St).st.raised

\* C23. At most one in-flight execution per kernel instance: of the
\* requests the kernel has been sent, at most one has not had its completion
\* received; and the messages a call of run_code collects (outputs and
\* execution count) all answer its own request.
C23_OneInFlight ==
    /\ Cardinality(kernel.sent \ kernel.completed) <= 1
    /\ \A t \in Callers :
           /\ \A i \in 1..Len(kernel.outputs[t]) : kernel.outputs[t][i].parent = t
           /\ kernel.execution_count[t] \in {NULL, t}

\* A run that has been sent and has not returned or raised.
Pending(t) == kernel.pc[t] = "reading"

\* A run that has returned or raised.
Resolved(t) == kernel.pc[t] \in {"returned", "raised"}

\* C26. After a restart in mid-execution, every run that was pending on the
\* old kernel instance eventually resolves: run_code returns or raises
\* (unless the new kernel dies as well).
C26_RestartResolvesPending ==
    \A t \in Callers :
        (Pending(t) /\ kernel.sent_at[t] < kernel.restarts /\ ~kernel.stopped)
            ~> (Resolved(t) \/ kernel.dead)

\* C27. A run whose kernel has stopped answering is recovered: run_code
\* eventually returns or raises, so that the cell's running flag can become
\* false again.
C27_KernelFailureRecovered ==
    \A t \in Callers :
        (Pending(t) /\ kernel.dead) ~> Resolved(t)

\* The names of the mutating operations of the Document.
MutatingOps ==
    {"add_after", "add_before", "add_code_button", "add_markdown_button",
     "delete", "cut", "paste", "move_up", "move_down", "merge", "join_above",
     "join_below", "split", "switch", "load"}

\* C30. Focus is always well defined: after every mutating operation, if
\* the Document contains at least one cell then last_focused is non-null and
\* is a cell currently in the Document.
C30_FocusWellDefined ==
    (op.name \in MutatingOps /\ children # <<>>) =>
        (last_focused # NULL /\ InSeq(children, last_focused))

\* The output_type tags of the notebook format's output records.
OutputTypes == {"stream", "error", "execute_result", "display_data"}

\* C31. Every output record a run returns has output_type stream, error,
\* execute_result or display_data; a display_data message of the kernel is
\* recorded with output_type "display_data".
C31_OutputTags ==
    \A t \in Callers : \A i \in 1..Len(kernel.outputs[t]) :
        kernel.outputs[t][i].output_type \in OutputTypes

\* The cells of the sequence cells that are in the sequence ran.
Executed(ran, cells) == SelectSeq(cells, LAMBDA c : InSeq(ran, c))

\* C32. Range of the batch commands: run after executes the active cell and
\* the code cells after it, run before the code cells strictly before the
\* active cell and not the active cell, run all every code cell (a code cell
\* counts when it has source to execute); a markdown cell is executed by none
\* of the three.
C32_BatchRange ==
    (last_focused # NULL /\ InSeq(children, last_focused) /\ NeighborOk(St)) =>
        LET i == IndexOf(children, last_focused)
            all    == run_all_cells(St).ran
            after  == run_cells_after(St).ran
            before == run_cells_before(St).ran
        IN  /\ Executed(all, children) = Runnable(cell, children)
            /\ Executed(after, children) = Runnable(cell, SubSeq(children, i, Len(children)))
            /\ Executed(before, children) = Runnable(cell, SubSeq(children, 1, i - 1))
            /\ \A c \in Range(all) \cup Range(after) \cup Range(before) :
                   cell[c].kind = "code"

\* No cell of the Document of st has its merge_select flag set.
NoneSelected(st) == \A c \in Range(st.children) : ~st.cell[c].merge_select

\* C33. Escape and a successful merge empty the merge selection: right
\* after them the merge list is empty and no cell of the Document has
\* merge_select set; a merge with fewer than 2 selected cells changes
\* nothing.
C33_SelectionEmptied ==
    LET e == on_key_escape(St)
        m == action_merge_cells(St)
    IN  /\ e.merge_list = <<>> /\ NoneSelected(e)
        /\ (Len(merge_list) >= 2 /\ ~m.raised) => (m.merge_list = <<>> /\ NoneSelected(m))
        /\ Len(merge_list) < 2 => m = St

\* A state where two cells of the Document are selected and their merge
\* succeeds, leaving a cell in the Document.
C33_Witness ==
    /\ Len(merge_list) >= 2
    /\ \A i \in 1..Len(merge_list) :
           InSeq(children, merge_list[i]) /\ cell[merge_list[i]].merge_select
    /\ ~action_merge_cells(St).raised
    /\ action_merge_cells(St).children # <<>>

\* C34. Merge-selection consistency: every cell of the merge list is a cell
\* of the Document and is in the list once, and a cell of the Document has
\* merge_select set exactly when it is in the merge list.
C34_SelectionConsistent ==
    /\ \A i \in 1..Len(merge_list) : InSeq(children, merge_list[i])
    /\ \A i, j \in 1..Len(merge_list) : merge_list[i] = merge_list[j] => i = j
    /\ \A c \in Range(children) : cell[c].merge_select <=> InSeq(merge_list, c)

\* C35. Cell ids are unique: no two cells of the Document share an id.
C35_UniqueIds ==
    \A i, j \in 1..Len(children) :
        cell[children[i]].id = cell[children[j]].id => i = j

C37_SelectionsIndependent ==
    \A n \in Tabs : \A i \in 1..Len(TabMergeList(n)) :
        tabs.notebook[TabMergeList(n)[i]] = n

\* What a snapshot holds, apart from the id, which paste replaces.
SnapshotContent(snap) == [snap EXCEPT !.id = NULL]

\* The Clipboard changes only in a copy or a cut.
SnapshotKept ==
    SnapshotContent(last_copied') # SnapshotContent(last_copied) =>
        op'.name \in {"copy", "cut"}

\* A paste that does not raise makes a cell with the kind, source, outputs,
\* execution count and metadata of the snapshot, and leaves the snapshot in
\* the Clipboard.
PasteFromSnapshot ==
    LET r == action_paste_cell(St)
        w == NewObj(cell)
    IN  (CanGrow /\ last_copied # NoCopy /\ ~r.raised) =>
            /\ r.last_copied = last_copied
            /\ r.cell[w].kind = last_copied.cell_type
            /\ r.cell[w].text = join_source(last_copied.source)
            /\ r.cell[w].metadata = last_copied.metadata
            /\ last_copied.cell_type = "code" =>
                   /\ r.cell[w].outputs = last_copied.outputs
                   /\ r.cell[w].exec_count = last_copied.execution_count

\* C38. Clipboard snapshot stability: the Clipboard holds one snapshot,
\* replaced only by a later copy or cut; edits, runs, moves, merges,
\* deletions and pastes leave it as it is, and a paste produces the kind,
\* source, outputs, execution count and metadata the snapshot was taken with.
C38_SnapshotStable == []PasteFromSnapshot /\ [][SnapshotKept]_vars

\* A state after an edit, a deletion, a move or a join in which no cell of
\* the Document has the content of the snapshot any more, and a paste is
\* possible.
C38_Witness ==
    /\ last_copied # NoCopy
    /\ op.name \in {"edit", "delete", "move_down", "join_below"} /\ ~op.raised
    /\ \A c \in Range(children) :
           SnapshotContent(to_nb(cell[c])) # SnapshotContent(last_copied)
    /\ CanGrow /\ ~action_paste_cell(St).raised

\* The kinds and sources of the cells of the Document of st, in order.
KindsAndSources(st) ==
    [i \in 1..Len(st.children) |->
        <<st.cell[st.children[i]].kind, st.cell[st.children[i]].text>>]

\* C39. For an active cell that has a predecessor, cut followed at once by
\* paste gives a Document with the same sequence of kinds and sources as
\* before the cut: the pasted cell lands where the cut cell was.
C39_CutPasteRestores ==
    (/\ CanAlloc
     /\ last_focused # NULL /\ InDocument(last_focused)
     /\ IndexOf(children, last_focused) > 1
     /\ cell[last_focused].prev # NULL
     /\ NeighborOk(St)) =>
        LET r == action_paste_cell(action_cut_cell(St))
        IN  ~r.raised /\ KindsAndSources(r) = KindsAndSources(St)

\* The cell r.last_focused of the state r a move has left has the collapse
\* flags of the active cell of the state before the move.
SameCollapseFlags(r) ==
    /\ ~r.raised
    /\ r.last_focused # NULL
    /\ r.cell[r.last_focused].collapsed = cell[last_focused].collapsed
    /\ r.cell[r.last_focused].output_collapsed = cell[last_focused].output_collapsed

\* C40. moveUp and moveDown preserve the moved cell's presentation state:
\* the cell at the new position has the codeCollapsed and outputCollapsed
\* flags the cell had before the move.
C40_MovePreservesCollapse ==
    (/\ CanAlloc
     /\ last_focused # NULL /\ InDocument(last_focused)
     /\ NeighborOk(St)) =>
        /\ cell[last_focused].prev # NULL => SameCollapseFlags(action_move_up(St))
        /\ cell[last_focused].next # NULL => SameCollapseFlags(action_move_down(St))

====
